---- MODULE Spec2Model ----
(***************************************************************************)
(* A model of the two highlight compilers of this repository:              *)
(*   game_with_scores.py    ("scores"):     one descriptor, score overlay, *)
(*                                          resume check, processed dir    *)
(*   create_highlights.py   ("highlights"): all descriptors of a folder,   *)
(*                                          youtube and local segments     *)
(* One run of main() is a walk  start -> parse -> loop -> finally -> done. *)
(* The external collaborators (yt-dlp, ffmpeg, ffprobe) are the            *)
(* environment: each call draws its outcome from a small set.              *)
(***************************************************************************)
EXTENDS Naturals, Integers, Sequences, FiniteSets, TLC

VARIABLES
    prog,             \* which script runs: "scores" | "highlights"
    run,              \* number of the current invocation of main()
    pc,               \* position in main(): start, parse, loop, finally, done
    target_arg,       \* what sys.argv names: "json" | "dir" | "none"
    files,            \* the *.json files of the work dir, in sorted name order
    all_segments,     \* all_segments
    i,                \* loop index of the segment loop (0-based)
    downloaded_clips, \* downloaded_clips: clip paths, a path is its index
    temp_exists,      \* temp_dir exists
    temp_files,       \* indices k with a file raw_k* / clip_k* in temp_dir
    processed_exists, \* processed_dir exists
    processed_files,  \* clip index -> run that wrote clip_k.mp4 (0: older)
    list_exists,      \* ffmpeg_list.txt exists
    list_file,        \* its lines, one clip path each
    output_video,     \* clips joined into the output video by this run
    fetched,          \* segments the fetch collaborator was invoked for
    burned,           \* segments the overlay-burn collaborator was invoked for
    sliced,           \* segments the local slicer was invoked for
    concat_calls,     \* invocations of the concatenation collaborator
    status,           \* what happened to each segment reached by the loop
    result,           \* the exit path main() took
    prev_clips,       \* downloaded_clips of the previous run
    show_progression, \* show_progression: the -p flag was given
    video_dims,       \* <<width, height>> of the source video's frames
    last_burn,        \* the latest overlay burn: segment, probe, dimensions
    exit_status       \* exit status of the process, once it has ended

vars == <<prog, run, pc, target_arg, files, all_segments, i, downloaded_clips,
          temp_exists, temp_files, processed_exists, processed_files,
          list_exists, list_file, output_video, fetched, burned, sliced,
          concat_calls, status, result, prev_clips, show_progression,
          video_dims,
          last_burn, exit_status>>

\* ------------------------------------------------------------- bounds
MaxSegs == 2        \* segments of a run (length of all_segments)
MaxRuns == 2        \* invocations of main() over one work dir
MaxFiles == 2       \* descriptor files of a folder
WMaxSegs == 4       \* segments of a descriptor under SpecWinner
LMaxHeight == 41    \* frame height of the source video under SpecLayout
LMaxTotal == 17     \* segments of a descriptor under SpecLayout

\* ------------------------------------------------------------- data
NoFiles == [k \in {} |-> 0]

Range(s) == {s[k] : k \in DOMAIN s}

\* A segment element of a descriptor: the keys it has and their values.
RawSeg(ks, st, en, a, b) ==
    [keys |-> ks, start |-> st, end |-> en, t1 |-> a, t2 |-> b]

TimeKeys == {"start", "end"}
AllKeys == {"start", "end", "scoreState"}

\* The segment elements of the pipeline runs: plain, scored, end <= start,
\* and the two malformed ones.
SegChoices ==
    { RawSeg(TimeKeys, 0, 1, 0, 0),
      RawSeg(AllKeys, 0, 1, 1, 0),
      RawSeg(AllKeys, 2, 1, 0, 1),
      RawSeg({"end"}, 0, 1, 0, 0),
      RawSeg({"start"}, 0, 0, 0, 0) }

\* The segment elements under SpecWinner: no scoreState, or any pair
\* of scores (three values give every order of a score against its
\* predecessor and against the running maximum).
ScoreVals == {0, 1, 2}

ScoredSegs ==
    { RawSeg(TimeKeys, 0, 1, 0, 0) } \cup
    { RawSeg(AllKeys, 0, 1, a, b) : a \in ScoreVals, b \in ScoreVals }

SeqsUpTo(S, n) == UNION { [1..m -> S] : m \in 0..n }

\* A descriptor file: unparseable, or a JSON object.
BadFile == [json_ok |-> FALSE, mode |-> "youtube", video |-> "", segments |-> <<>>]
JsonFile(m, v, segs) == [json_ok |-> TRUE, mode |-> m, video |-> v, segments |-> segs]

\* ------------------------------------------ winner pass (game_with_scores)
\* score = seg.get('scoreState', {'t1':0, 't2':0})
ScoreOf(seg) ==
    IF "scoreState" \in seg.keys THEN [t1 |-> seg.t1, t2 |-> seg.t2]
                                 ELSE [t1 |-> 0, t2 |-> 0]

\* Variant: team 2 is tested first.
WinnerTeam2First(score, prev_s1, prev_s2) ==
    IF score.t2 > prev_s2 THEN 2
    ELSE IF score.t1 > prev_s1 THEN 1
    ELSE 0

\* Variant: an equal score counts as a point for team 1.
WinnerNotStrict(score, prev_s1, prev_s2) ==
    IF score.t1 >= prev_s1 /\ score.t1 > 0 THEN 1
    ELSE IF score.t2 > prev_s2 THEN 2
    ELSE 0

Winner(score, prev_s1, prev_s2) ==
    IF score.t1 > prev_s1 THEN 1
    ELSE IF score.t2 > prev_s2 THEN 2
    ELSE 0

\* Variant: a record whose end is not after its start is dropped.
AppendIfOrdered(acc, rec) ==
    IF rec.end > rec.start THEN Append(acc, rec) ELSE acc

\* all_segments.append({...}): the record is appended as it is.
AppendRecord(acc, rec) == Append(acc, rec)

\* The loop over data['segments']: the records appended, and whether
\* seg['start'] / seg['end'] raised KeyError.
RECURSIVE WinnerPass(_, _, _, _)
WinnerPass(segments, prev_s1, prev_s2, acc) ==
    IF segments = <<>> THEN [all |-> acc, raised |-> FALSE]
    ELSE LET seg == Head(segments)
             score == ScoreOf(seg)
             winner == Winner(score, prev_s1, prev_s2)
             n1 == IF winner = 1 THEN score.t1 ELSE prev_s1
             n2 == IF winner = 2 THEN score.t2 ELSE prev_s2
         IN IF ~(TimeKeys \subseteq seg.keys)
            THEN [all |-> acc, raised |-> TRUE]
            ELSE WinnerPass(Tail(segments), n1, n2,
                     AppendRecord(acc, [mode |-> "youtube", video |-> "",
                                        start |-> seg.start, end |-> seg.end,
                                        s1 |-> score.t1, s2 |-> score.t2,
                                        winner |-> winner]))

\* ------------------------------------------ aggregation (create_highlights)
\* for seg in data.get('segments', []): all_segments.append(...) until
\* seg['start'] / seg['end'] raises KeyError, which ends the file.
RECURSIVE AppendSegments(_, _, _, _)
AppendSegments(segments, mode, video, acc) ==
    IF segments = <<>> THEN acc
    ELSE LET seg == Head(segments)
         IN IF ~(TimeKeys \subseteq seg.keys) THEN acc
            ELSE AppendSegments(Tail(segments), mode, video,
                     AppendRecord(acc, [mode |-> mode, video_filename |-> video,
                                        start |-> seg.start, end |-> seg.end]))

\* The try block of one descriptor file: json.load raising skips the file.
ParseFile(file, acc) ==
    IF ~file.json_ok THEN acc
    ELSE AppendSegments(file.segments, file.mode, file.video, acc)

\* for j_file in json_files
RECURSIVE ParseAll(_, _)
ParseAll(json_files, acc) ==
    IF json_files = <<>> THEN acc
    ELSE ParseAll(Tail(json_files), ParseFile(Head(json_files), acc))

\* ------------------------------------------------------------- inputs
\* Media files present in the work dir (os.path.exists(source_file)).
DirMedia == {"here.mp4"}

FetchOutcomes == {"ok", "nofile", "error"}   \* yt-dlp: file, no file, raises
RunOutcomes == {"ok", "error"}               \* subprocess.run(check=True)

GameDescs ==
    {BadFile} \cup
    { JsonFile("youtube", "", segs) : segs \in SeqsUpTo(SegChoices, MaxSegs) }

GameFileSets ==
    {<<>>, <<BadFile, BadFile>>} \cup { <<f>> : f \in GameDescs }

HlSegChoices ==
    { RawSeg(TimeKeys, 0, 1, 0, 0),
      RawSeg(TimeKeys, 2, 1, 0, 0),
      RawSeg({"end"}, 0, 1, 0, 0) }

HlSources == { <<"youtube", "">>, <<"local", "here.mp4">>,
               <<"local", "gone.mp4">>, <<"other", "">> }

HlDescs ==
    {BadFile, JsonFile("youtube", "", <<>>)} \cup
    { JsonFile(sv[1], sv[2], segs) :
        sv \in HlSources, segs \in SeqsUpTo(HlSegChoices, MaxSegs) \ {<<>>} }

\* Sequences of at most n descriptor files holding at most m segments in all.
RECURSIVE FileSeqs(_, _)
FileSeqs(n, m) ==
    IF n = 0 THEN {<<>>}
    ELSE {<<>>} \cup
         UNION { { <<f>> \o rest : rest \in FileSeqs(n - 1, m - Len(f.segments)) } :
                 f \in { d \in HlDescs : Len(d.segments) <= m } }

HlFileSets == FileSeqs(MaxFiles, MaxSegs)

SegIdx == 0..(MaxSegs - 1)

\* ------------------------------------------------------------- Init
\* The work dir as an earlier, interrupted run may have left it: either
\* directory with any of its files, the manifest.
InitDisk ==
    /\ temp_exists \in BOOLEAN
    /\ temp_files \in (IF temp_exists THEN SUBSET SegIdx ELSE {{}})
    /\ processed_exists \in (IF prog = "scores" THEN BOOLEAN ELSE {FALSE})
    /\ processed_files \in
         (IF processed_exists THEN { [k \in S |-> 0] : S \in SUBSET SegIdx }
                              ELSE {NoFiles})
    /\ list_exists \in BOOLEAN
    /\ list_file = <<>>

InitRun ==
    /\ run = 1
    /\ all_segments = <<>>
    /\ i = 0
    /\ downloaded_clips = <<>>
    /\ output_video = <<>>
    /\ fetched = {}
    /\ burned = {}
    /\ sliced = {}
    /\ concat_calls = <<>>
    /\ status = <<>>
    /\ result = "running"
    /\ prev_clips = <<>>
    /\ last_burn = <<>>
    /\ exit_status = <<>>

\* The -p flag only selects the filter list handed to the burn; the runs
\* with it are those of InitOverlay.
InitScores ==
    /\ prog = "scores"
    /\ show_progression = FALSE
    /\ video_dims = <<1280, 720>>
    /\ target_arg \in {"json", "dir", "none"}
    /\ files \in GameFileSets
    /\ target_arg = "json" => Len(files) = 1
    /\ target_arg = "none" => files = <<>>

InitHighlights ==
    /\ prog = "highlights"
    /\ show_progression = FALSE
    /\ video_dims = <<1280, 720>>
    /\ target_arg \in {"dir", "none"}
    /\ files \in HlFileSets
    /\ target_arg = "none" => files = <<>>

Init == (InitScores \/ InitHighlights) /\ InitDisk /\ InitRun /\ pc = "start"

\* ------------------------------------------------------------- actions
Disk == <<temp_exists, temp_files, processed_exists, processed_files,
          list_exists, list_file>>
Input == <<prog, run, target_arg, files, prev_clips, show_progression,
          video_dims>>
Calls == <<fetched, burned, sliced, concat_calls, last_burn>>

\* Argument handling before the try block. game_with_scores: a .json file,
\* or a directory holding exactly one; create_highlights: a directory.
InputFound ==
    IF prog = "scores"
    THEN target_arg = "json" \/ (target_arg = "dir" /\ Len(files) = 1)
    ELSE target_arg = "dir"

\* The status the process ends with: main() returns on every path and the
\* module calls nothing after it, so the interpreter exits normally.
ExitStatus(res) == 0

ResolveInput ==
    /\ pc = "start"
    /\ IF InputFound
       THEN pc' = "parse" /\ result' = result /\ exit_status' = exit_status
       ELSE /\ pc' = "done" /\ result' = "no_input"
            /\ exit_status' = <<ExitStatus("no_input")>>
    /\ UNCHANGED <<Input, Disk, Calls, all_segments, i, downloaded_clips,
                   output_video, status>>

\* game_with_scores: json.load, the winner pass, the empty check, makedirs.
ParseGame ==
    /\ prog = "scores" /\ pc = "parse"
    /\ LET file == files[1]
           pass == WinnerPass(file.segments, 0, 0, <<>>)
       IN IF ~file.json_ok
          THEN all_segments' = <<>> /\ result' = "critical" /\ pc' = "finally"
               /\ UNCHANGED <<temp_exists, processed_exists>>
          ELSE /\ all_segments' = pass.all
               /\ IF pass.raised
                  THEN result' = "critical" /\ pc' = "finally"
                       /\ UNCHANGED <<temp_exists, processed_exists>>
                  ELSE IF pass.all = <<>>
                  THEN result' = "no_segments" /\ pc' = "finally"
                       /\ UNCHANGED <<temp_exists, processed_exists>>
                  ELSE result' = result /\ pc' = "loop"
                       /\ temp_exists' = TRUE /\ processed_exists' = TRUE
    /\ UNCHANGED exit_status
    /\ UNCHANGED <<Input, Calls, temp_files, processed_files, list_exists,
                   list_file, i, downloaded_clips, output_video, status>>

\* create_highlights: glob, parse every file, the empty check, makedirs.
Aggregate ==
    /\ prog = "highlights" /\ pc = "parse"
    /\ LET all == ParseAll(files, <<>>)
       IN IF files = <<>>
          THEN all_segments' = <<>> /\ result' = "no_json" /\ pc' = "finally"
               /\ temp_exists' = temp_exists
          ELSE /\ all_segments' = all
               /\ IF all = <<>>
                  THEN result' = "no_segments" /\ pc' = "finally"
                       /\ temp_exists' = temp_exists
                  ELSE result' = result /\ pc' = "loop" /\ temp_exists' = TRUE
    /\ UNCHANGED exit_status
    /\ UNCHANGED <<Input, Calls, temp_files, processed_exists, processed_files,
                   list_exists, list_file, i, downloaded_clips, output_video,
                   status>>

InLoop(p) == prog = p /\ pc = "loop" /\ i < Len(all_segments)

\* Variant: the newest clip goes first.
AddClipFront(clips, k) == <<k>> \o clips

\* downloaded_clips.append(...)
AddClip(clips, k) == Append(clips, k)

\* Variant: no resume check.
NeverProcessed(k) == FALSE

\* os.path.exists(final_filename)
AlreadyProcessed(k) == k \in DOMAIN processed_files

\* Variant: a segment's error reaches the outer except.
AbortOnSegmentError == "finally"

\* Where main() goes on after a segment failed: the inner except (or the
\* continue) ends the iteration and the loop goes on.
AfterSegmentError == "loop"

\* game_with_scores, one iteration: the resume check.
SkipProcessed ==
    /\ InLoop("scores")
    /\ AlreadyProcessed(i)
    /\ downloaded_clips' = AddClip(downloaded_clips, i)
    /\ status' = Append(status, "reused")
    /\ i' = i + 1
    /\ UNCHANGED exit_status
    /\ UNCHANGED <<Input, Disk, Calls, pc, all_segments, output_video, result>>

\* ------------------------------------------------------------- overlay
Max2(a, b) == IF a >= b THEN a ELSE b

\* int(a / b): truncation toward zero.
TruncDiv(a, b) == IF a >= 0 THEN a \div b ELSE 0 - ((0 - a) \div b)

\* CALCULATE RELATIVE DIMENSIONS. The percentages are taken exactly
\* (int(vid_h * 0.15) is 15 * vid_h \div 100); prog_slot_h, the one value the
\* code keeps as a fraction, is slot_num / slot_den.
Layout(vid_w, vid_h, total_segs) ==
    LET sb_height == TruncDiv(vid_h * 15, 100)
        sb_y == vid_h - sb_height
        box_height == TruncDiv(sb_height * 5, 10)
        box_width == TruncDiv(box_height * 12, 10)
        center_x == vid_w \div 2
        prog_margin_top == TruncDiv(vid_h * 5, 100)
        prog_available_h ==
            vid_h - prog_margin_top - sb_height - TruncDiv(vid_h * 2, 100)
        \* min(prog_available_h / total_segs, vid_h * 0.05)
        shrunk == prog_available_h * 20 <= vid_h * total_segs
        slot_num == IF shrunk THEN prog_available_h ELSE vid_h
        slot_den == IF shrunk THEN total_segs ELSE 20
        prog_gap == Max2(1, TruncDiv(slot_num, slot_den * 10))
    IN [ vid_w |-> vid_w,
         sb_height |-> sb_height,
         sb_y |-> sb_y,
         accent_height |-> Max2(2, TruncDiv(vid_h * 6, 1000)),
         box_height |-> box_height,
         box_width |-> box_width,
         box_y |-> sb_y + (sb_height - box_height) \div 2,
         box_t1_x |-> center_x - box_width,
         box_t2_x |-> center_x,
         font_score |-> TruncDiv(box_height * 8, 10),
         font_team |-> TruncDiv(sb_height * 25, 100),
         text_team_offset_x |-> TruncDiv(box_width * 2, 10),
         prog_margin_top |-> prog_margin_top,
         prog_available_h |-> prog_available_h,
         prog_line_x |-> TruncDiv(vid_h * 5, 100) + 14,
         prog_line_w |-> Max2(2, TruncDiv(vid_h * 3, 1000)),
         slot_num |-> slot_num,
         slot_den |-> slot_den,
         prog_gap |-> prog_gap,
         \* int(prog_box_dim), prog_box_dim = prog_slot_h - prog_gap
         prog_box_dim |-> TruncDiv(slot_num - prog_gap * slot_den, slot_den) ]

\* One element of the filter list. role names the primitive; a drawtext
\* carries its font size and what it prints.
DrawBox(role, x, y, w, h, color) ==
    [kind |-> "drawbox", role |-> role, x |-> x, y |-> y, w |-> w, h |-> h,
     color |-> color, fontsize |-> 0, text |-> "", value |-> 0]

DrawText(role, x, y, fontsize, text, value) ==
    [kind |-> "drawtext", role |-> role, x |-> x, y |-> y, w |-> 0, h |-> 0,
     color |-> "white", fontsize |-> fontsize, text |-> text, value |-> value]

\* Variant: a square for every segment, whoever won the point.
HasMarkerAlways(pt_winner) == TRUE

\* if pt_winner == 0: continue
HasMarker(pt_winner) == pt_winner # 0

\* The square of segment k: y_pos down the line, red left of the line for
\* team 1, blue right of it for team 2.
Marker(k, pt_winner, L) ==
    LET y_pos == TruncDiv(L.prog_margin_top * L.slot_den + k * L.slot_num,
                          L.slot_den)
        \* prog_line_x - prog_gap - prog_box_dim is prog_line_x - prog_slot_h
        x_left == TruncDiv(L.prog_line_x * L.slot_den - L.slot_num, L.slot_den)
        x_right == L.prog_line_x + L.prog_line_w + L.prog_gap
    IN IF pt_winner = 1
       THEN DrawBox("marker", x_left, y_pos, L.prog_box_dim, L.prog_box_dim,
                    "red@0.8")
       ELSE DrawBox("marker", x_right, y_pos, L.prog_box_dim, L.prog_box_dim,
                    "blue@0.8")

\* for k in range(i + 1): the squares of segments k..idx, in index order.
RECURSIVE Markers(_, _, _, _)
Markers(k, idx, segs, L) ==
    IF k > idx THEN <<>>
    ELSE (IF HasMarker(segs[k + 1].winner)
          THEN <<Marker(k, segs[k + 1].winner, L)>>
          ELSE <<>>) \o Markers(k + 1, idx, segs, L)

\* Variant: the line is drawn whether or not -p was given.
ProgressionLineAlways(show, line, markers) ==
    IF show THEN line \o markers ELSE line

\* A. Progression Bar: if show_progression, the line and then the squares.
Progression(show, line, markers) ==
    IF show THEN line \o markers ELSE <<>>

\* Variant: the scoreboard shapes are appended before the progression bar.
FiltersShapesFirst(progression, shapes, texts) ==
    shapes \o progression \o texts

\* The order of the appends to filters: A. Progression Bar, B. Scoreboard
\* (shapes 1-4, texts 5-8).
Filters(progression, shapes, texts) == progression \o shapes \o texts

\* BUILD FILTER COMPLEX for segment idx of segs at resolution vid_w x vid_h.
BuildFilters(idx, vid_w, vid_h, segs, show) ==
    LET L == Layout(vid_w, vid_h, Len(segs))
        seg == segs[idx + 1]
        line == << DrawBox("line", L.prog_line_x, L.prog_margin_top,
                           L.prog_line_w, L.prog_available_h, "white@1") >>
        shapes ==
            << DrawBox("band", 0, L.sb_y, L.vid_w, L.sb_height, "black@0.8"),
               DrawBox("accent", 0, L.sb_y, L.vid_w, L.accent_height,
                       "orange@1"),
               DrawBox("box1", L.box_t1_x, L.box_y, L.box_width, L.box_height,
                       "red@0.8"),
               DrawBox("box2", L.box_t2_x, L.box_y, L.box_width, L.box_height,
                       "blue@0.8") >>
        texts ==
            << DrawText("name1", L.box_t1_x - L.text_team_offset_x, L.box_y,
                        L.font_team, "t1_name", 0),
               DrawText("score1", L.box_t1_x, L.box_y, L.font_score, "s1",
                        seg.s1),
               DrawText("score2", L.box_t2_x, L.box_y, L.font_score, "s2",
                        seg.s2),
               DrawText("name2", L.box_t2_x + L.box_width + L.text_team_offset_x,
                        L.box_y, L.font_team, "t2_name", 0) >>
    IN Filters(Progression(show, line, Markers(0, idx, segs, L)), shapes, texts)

\* What ffprobe gives for the raw file: a "WxH" line, nothing, a line that
\* is not "WxH", or a failed call.
ProbeOutcomes ==
    { [kind |-> "dims", w |-> video_dims[1], h |-> video_dims[2]],
      [kind |-> "empty", w |-> 0, h |-> 0],
      [kind |-> "unparseable", w |-> 0, h |-> 0],
      [kind |-> "failed", w |-> 0, h |-> 0] }

\* Variant: no fallback resolution, the probe's fields are used as they are.
GetVideoDimensionsNoDefault(probe) == <<probe.w, probe.h>>

\* get_video_dimensions: (width, height), 1920x1080 when the output is empty
\* or when the call or the parsing raises.
GetVideoDimensions(probe) ==
    IF probe.kind = "dims" THEN <<probe.w, probe.h>> ELSE <<1920, 1080>>

\* Variant: the raw file is left in temp_dir.
KeepRaw(raw, k) == raw

\* os.remove(downloaded_file)
RemoveRaw(raw, k) == raw \ {k}

\* game_with_scores, one iteration: download, glob, probe, burn, remove the
\* raw file.
ProcessSegment ==
    /\ InLoop("scores")
    /\ ~AlreadyProcessed(i)
    /\ \E f \in FetchOutcomes, p \in ProbeOutcomes, b \in RunOutcomes :
         LET raw == IF f = "ok" THEN temp_files \cup {i} ELSE temp_files
             found == i \in raw
         IN /\ fetched' = fetched \cup {i}
            /\ IF f = "error" \/ ~found
               THEN /\ status' = Append(status, "acq_failed")
                    /\ temp_files' = raw
                    /\ pc' = AfterSegmentError
                    /\ UNCHANGED <<burned, last_burn, processed_files,
                                   downloaded_clips>>
               ELSE /\ burned' = burned \cup {i}
                    /\ LET dims == GetVideoDimensions(p)
                       IN last_burn' =
                            << [idx |-> i, probe |-> p.kind, dims |-> dims,
                                filters |-> BuildFilters(i, dims[1], dims[2],
                                              all_segments, show_progression)] >>
                    /\ IF b = "ok"
                       THEN /\ processed_files' =
                                 [k \in DOMAIN processed_files \cup {i} |->
                                    IF k = i THEN run ELSE processed_files[k]]
                            /\ downloaded_clips' = AddClip(downloaded_clips, i)
                            /\ temp_files' = RemoveRaw(raw, i)
                            /\ status' = Append(status, "ok")
                            /\ pc' = pc
                       ELSE /\ status' = Append(status, "render_failed")
                            /\ temp_files' = raw
                            /\ pc' = AfterSegmentError
                            /\ UNCHANGED <<processed_files, downloaded_clips>>
    /\ i' = i + 1
    /\ UNCHANGED exit_status
    /\ UNCHANGED <<Input, all_segments, output_video, result, sliced,
                   concat_calls, temp_exists, processed_exists, list_exists,
                   list_file>>

\* create_highlights, one iteration, PATH A: download, glob.
DownloadSegment ==
    /\ InLoop("highlights")
    /\ all_segments[i + 1].mode = "youtube"
    /\ \E f \in FetchOutcomes :
         LET clips == IF f = "ok" THEN temp_files \cup {i} ELSE temp_files
             matches == i \in clips
         IN /\ fetched' = fetched \cup {i}
            /\ temp_files' = clips
            /\ IF f # "error" /\ matches
               THEN /\ downloaded_clips' = AddClip(downloaded_clips, i)
                    /\ status' = Append(status, "ok")
                    /\ pc' = pc
               ELSE /\ downloaded_clips' = downloaded_clips
                    /\ status' = Append(status, "acq_failed")
                    /\ pc' = AfterSegmentError
    /\ i' = i + 1
    /\ UNCHANGED <<exit_status, last_burn>>
    /\ UNCHANGED <<Input, all_segments, output_video, result, burned,
                   sliced, concat_calls, temp_exists, processed_exists,
                   processed_files, list_exists, list_file>>

\* Variant: the source file is taken to be there.
SourceAssumed(v) == TRUE

\* os.path.exists(source_file)
SourceExists(v) == v \in DirMedia

\* create_highlights, one iteration, PATH B: source check, ffmpeg slice.
ExtractSegment ==
    /\ InLoop("highlights")
    /\ all_segments[i + 1].mode = "local"
    /\ IF ~SourceExists(all_segments[i + 1].video_filename)
       THEN /\ status' = Append(status, "no_source")
            /\ pc' = AfterSegmentError
            /\ UNCHANGED <<sliced, temp_files, downloaded_clips>>
       ELSE \E r \in RunOutcomes :
            /\ sliced' = sliced \cup {i}
            /\ IF r = "ok"
               THEN /\ temp_files' = temp_files \cup {i}
                    /\ downloaded_clips' = AddClip(downloaded_clips, i)
                    /\ status' = Append(status, "ok")
                    /\ pc' = pc
               ELSE /\ status' = Append(status, "acq_failed")
                    /\ pc' = AfterSegmentError
                    /\ UNCHANGED <<temp_files, downloaded_clips>>
    /\ i' = i + 1
    /\ UNCHANGED <<exit_status, last_burn>>
    /\ UNCHANGED <<Input, all_segments, output_video, result, fetched,
                   burned, concat_calls, temp_exists, processed_exists,
                   processed_files, list_exists, list_file>>

\* create_highlights, one iteration: a mode that is neither branch.
IgnoreSegment ==
    /\ InLoop("highlights")
    /\ all_segments[i + 1].mode \notin {"youtube", "local"}
    /\ status' = Append(status, "no_mode")
    /\ i' = i + 1
    /\ UNCHANGED exit_status
    /\ UNCHANGED <<Input, Disk, Calls, pc, all_segments, downloaded_clips,
                   output_video, result>>

\* Variant: a failed stream copy is followed by a re-encoding join.
ConcatAttemptsRetry(first_ok, manifest) ==
    IF first_ok
    THEN << [mode |-> "copy", ok |-> TRUE, manifest |-> manifest] >>
    ELSE << [mode |-> "copy", ok |-> FALSE, manifest |-> manifest],
            [mode |-> "reencode", ok |-> TRUE, manifest |-> manifest] >>

\* The invocations of the concatenation collaborator over one manifest.
ConcatAttempts(first_ok, manifest) ==
    << [mode |-> "copy", ok |-> first_ok, manifest |-> manifest] >>

\* Variant: the join is attempted whatever the loop produced.
AlwaysConcat(clips) == TRUE

\* if downloaded_clips:  /  if len(downloaded_clips) > 0:
HaveClips(clips) == clips # <<>>

\* After the loop: write the manifest, join the clips. A failed join raises
\* (game_with_scores, to the outer except) or is reported (create_highlights).
Concat ==
    /\ pc = "loop" /\ i = Len(all_segments)
    /\ IF HaveClips(downloaded_clips)
       THEN \E first_ok \in BOOLEAN :
            LET attempts == ConcatAttempts(first_ok, downloaded_clips)
                joined == attempts[Len(attempts)].ok
            IN /\ list_exists' = TRUE
               /\ list_file' = downloaded_clips
               /\ concat_calls' = attempts
               /\ output_video' = IF joined THEN downloaded_clips ELSE output_video
               /\ result' = IF joined THEN "ok"
                            ELSE IF prog = "scores" THEN "critical"
                            ELSE "merge_error"
       ELSE /\ result' = "no_clips"
            /\ UNCHANGED <<list_exists, list_file, concat_calls, output_video>>
    /\ pc' = "finally"
    /\ UNCHANGED <<exit_status, last_burn>>
    /\ UNCHANGED <<Input, all_segments, i, downloaded_clips, status, fetched,
                   burned, sliced, temp_exists, temp_files, processed_exists,
                   processed_files>>

\* Variant: the processed-clip directory is kept.
FinallyKeepsProcessed ==
    /\ pc = "finally"
    /\ list_exists' = FALSE /\ list_file' = <<>>
    /\ temp_exists' = FALSE /\ temp_files' = {}
    /\ pc' = "done"
    /\ exit_status' = <<ExitStatus(result)>>
    /\ UNCHANGED <<Input, Calls, all_segments, i, downloaded_clips,
                   output_video, status, result, processed_exists,
                   processed_files>>

\* finally: remove the manifest and the working directories.
Finally ==
    /\ pc = "finally"
    /\ list_exists' = FALSE /\ list_file' = <<>>
    /\ temp_exists' = FALSE /\ temp_files' = {}
    /\ IF prog = "scores"
       THEN processed_exists' = FALSE /\ processed_files' = NoFiles
       ELSE UNCHANGED <<processed_exists, processed_files>>
    /\ pc' = "done"
    /\ exit_status' = <<ExitStatus(result)>>
    /\ UNCHANGED <<Input, Calls, all_segments, i, downloaded_clips,
                   output_video, status, result>>

\* The script is invoked again over the same work dir, nothing else changed.
NewRun ==
    /\ pc = "done" /\ run < MaxRuns
    /\ run' = run + 1
    /\ prev_clips' = downloaded_clips
    /\ pc' = "start"
    /\ all_segments' = <<>> /\ i' = 0 /\ downloaded_clips' = <<>>
    /\ output_video' = <<>> /\ fetched' = {} /\ burned' = {} /\ sliced' = {}
    /\ concat_calls' = <<>> /\ status' = <<>> /\ result' = "running"
    /\ last_burn' = <<>> /\ exit_status' = <<>>
    /\ UNCHANGED <<prog, target_arg, files, show_progression, video_dims,
                   Disk>>

\* One invocation of either script.
Next ==
    \/ ResolveInput
    \/ ParseGame
    \/ Aggregate
    \/ SkipProcessed
    \/ ProcessSegment
    \/ DownloadSegment
    \/ ExtractSegment
    \/ IgnoreSegment
    \/ Concat
    \/ Finally

Spec == Init /\ [][Next]_vars

\* game_with_scores invoked repeatedly over one work dir.
InitResume == InitScores /\ InitDisk /\ InitRun /\ pc = "start"

NextResume ==
    \/ ResolveInput
    \/ ParseGame
    \/ SkipProcessed
    \/ ProcessSegment
    \/ Concat
    \/ Finally
    \/ NewRun

SpecResume == InitResume /\ [][NextResume]_vars

\* The winner pass of game_with_scores over every score sequence: main() at
\* the top of its try block, the descriptor found.
InitWinner ==
    /\ prog = "scores"
    /\ show_progression = FALSE
    /\ video_dims = <<1280, 720>>
    /\ target_arg = "json"
    /\ \E m \in 0..WMaxSegs :
         \E segs \in [1..m -> ScoredSegs] :
           files = <<JsonFile("youtube", "", segs)>>
    /\ temp_exists = FALSE /\ temp_files = {}
    /\ processed_exists = FALSE /\ processed_files = NoFiles
    /\ list_exists = FALSE /\ list_file = <<>>
    /\ InitRun
    /\ pc = "parse"

SpecWinner == InitWinner /\ [][ParseGame]_vars

\* game_with_scores with and without -p, over a work dir that may hold the
\* processed clips of an interrupted run: the overlay of every segment of
\* descriptors whose points go to either team or to none.
OverlayScores == { <<0, 0>>, <<1, 0>>, <<0, 1>>, <<1, 1>>, <<2, 1>> }

OverlaySegs == { RawSeg(AllKeys, 0, 1, sc[1], sc[2]) : sc \in OverlayScores }

InitOverlay ==
    /\ prog = "scores"
    /\ show_progression \in BOOLEAN
    /\ video_dims = <<1280, 720>>
    /\ target_arg = "json"
    /\ \E m \in 1..MaxSegs :
         \E segs \in [1..m -> OverlaySegs] :
           files = <<JsonFile("youtube", "", segs)>>
    /\ temp_exists = FALSE /\ temp_files = {}
    /\ processed_exists \in BOOLEAN
    /\ processed_files \in
         (IF processed_exists THEN { [k \in S |-> 0] : S \in SUBSET SegIdx }
                              ELSE {NoFiles})
    /\ list_exists = FALSE /\ list_file = <<>>
    /\ InitRun
    /\ pc = "start"

NextOverlay ==
    \/ ResolveInput
    \/ ParseGame
    \/ SkipProcessed
    \/ ProcessSegment
    \/ Concat
    \/ Finally

SpecOverlay == InitOverlay /\ [][NextOverlay]_vars

\* The progression layout over frame heights and segment counts:
\* game_with_scores with -p at the last segment of its loop, every segment
\* a point for team 1, the downloads before it having failed.
PointSegs(total) == [k \in 1..total |-> RawSeg(AllKeys, 0, 1, k, 0)]

InitLayout ==
    /\ prog = "scores"
    /\ show_progression = TRUE
    /\ target_arg = "json"
    /\ run = 1 /\ prev_clips = <<>>
    /\ \E H \in 1..LMaxHeight : video_dims = <<2 * H, H>>
    /\ \E total \in 1..LMaxTotal :
         /\ files = <<JsonFile("youtube", "", PointSegs(total))>>
         /\ all_segments = WinnerPass(PointSegs(total), 0, 0, <<>>).all
         /\ i = total - 1
         /\ status = [k \in 1..(total - 1) |-> "acq_failed"]
         /\ fetched = 0..(total - 2)
    /\ pc = "loop"
    /\ downloaded_clips = <<>> /\ output_video = <<>>
    /\ burned = {} /\ sliced = {} /\ concat_calls = <<>>
    /\ last_burn = <<>> /\ exit_status = <<>>
    /\ result = "running"
    /\ temp_exists = TRUE /\ temp_files = {}
    /\ processed_exists = TRUE /\ processed_files = NoFiles
    /\ list_exists = FALSE /\ list_file = <<>>

NextLayout ==
    \/ ProcessSegment
    \/ Concat
    \/ Finally

SpecLayout == InitLayout /\ [][NextLayout]_vars

\* ------------------------------------------------------------- claims
\* Indices of the segments whose clip was produced or reused in this run.
Succeeded == { k \in 0..(Len(status) - 1) : status[k + 1] \in {"ok", "reused"} }

Failures == {"acq_failed", "render_failed", "no_source"}

StrictlyIncreasing(s) == \A a, b \in DOMAIN s : a < b => s[a] < s[b]

\* C1: the manifest handed to the concatenation collaborator (and written to
\* ffmpeg_list.txt) holds exactly one entry for each segment whose clip was
\* produced or reused, none for a failed segment, in strictly increasing
\* segment-index order.
C1_ManifestIsSucceededInOrder ==
    concat_calls # <<>> =>
        LET manifest == concat_calls[1].manifest
        IN /\ Range(manifest) = Succeeded
           /\ StrictlyIncreasing(manifest)
           /\ Len(status) = Len(all_segments)
           /\ pc = "finally" => (list_exists /\ list_file = manifest)

C1_Witness ==
    /\ pc = "finally"
    /\ concat_calls # <<>>
    /\ status = <<"render_failed", "ok">>
    /\ list_file = <<1>>

\* Scores and winners of the records built by the winner pass.
MaxOf(S) == CHOOSE m \in S : \A x \in S : x <= m
RunMax1(k) == MaxOf({0} \cup { all_segments[m].s1 : m \in 1..(k - 1) })
RunMax2(k) == MaxOf({0} \cup { all_segments[m].s2 : m \in 1..(k - 1) })
BothRise(k) ==
    all_segments[k].s1 > RunMax1(k) /\ all_segments[k].s2 > RunMax2(k)
NoneRises(k) ==
    all_segments[k].s1 <= RunMax1(k) /\ all_segments[k].s2 <= RunMax2(k)

\* C2 as claimed: a segment in which both scores rise above everything seen
\* before gets winner 0.
C2_BothRiseGivesNone ==
    \A k \in DOMAIN all_segments : BothRise(k) => all_segments[k].winner = 0

\* C2, amended: a segment in which both scores rise above everything seen
\* before gets winner 1 (team 1 is tested first).
C2_BothRiseGivesTeam1 ==
    \A k \in DOMAIN all_segments : BothRise(k) => all_segments[k].winner = 1

C2_Witness ==
    /\ pc = "loop"
    /\ \E k \in DOMAIN all_segments : k > 1 /\ BothRise(k)

\* C3 as claimed: a segment in which neither score exceeds its running
\* maximum over the earlier segments gets winner 0.
C3_NoRiseGivesNone ==
    \A k \in DOMAIN all_segments : NoneRises(k) => all_segments[k].winner = 0

\* The score sequence of all_segments, and the predecessor of segment k in it
\* (the seed (0,0) for the first).
Scores == [k \in DOMAIN all_segments |-> <<all_segments[k].s1, all_segments[k].s2>>]
Winners == [k \in DOMAIN all_segments |-> all_segments[k].winner]
PrevScore(k) == IF k = 1 THEN <<0, 0>> ELSE Scores[k - 1]
OneChangeAtATime ==
    \A k \in DOMAIN all_segments :
        /\ Scores[k][1] >= PrevScore(k)[1]
        /\ Scores[k][2] >= PrevScore(k)[2]
        /\ ~(Scores[k][1] > PrevScore(k)[1] /\ Scores[k][2] > PrevScore(k)[2])

\* C4: over a non-decreasing score sequence in which at most one team's score
\* changes per segment, the winner of a segment is the team whose score rose
\* and 0 when no score changed; [(0,0),(1,0),(1,1),(2,1)] gives [0,1,2,1].
C4_WinnerIsTheTeamThatScored ==
    /\ OneChangeAtATime =>
         \A k \in DOMAIN all_segments :
            all_segments[k].winner =
               IF Scores[k][1] > PrevScore(k)[1] THEN 1
               ELSE IF Scores[k][2] > PrevScore(k)[2] THEN 2
               ELSE 0
    /\ Scores = << <<0, 0>>, <<1, 0>>, <<1, 1>>, <<2, 1>> >> =>
         Winners = <<0, 1, 2, 1>>

C4_Witness ==
    /\ pc = "loop"
    /\ Scores = << <<0, 0>>, <<1, 0>>, <<1, 1>>, <<2, 1>> >>
    /\ Winners = <<0, 1, 2, 1>>

\* C5 as claimed: a failed stream-copy join is followed, before the run ends,
\* by exactly one more join in forced re-encode mode.
C5_FailedCopyIsRetried ==
    (pc = "done" /\ concat_calls # <<>> /\ ~concat_calls[1].ok) =>
        (Len(concat_calls) = 2 /\ concat_calls[2].mode = "reencode")

\* C5, amended: the concatenation collaborator is invoked at most once per run,
\* in stream-copy mode; when that invocation fails no other follows, the run
\* ends as an error and no output video is joined.
C5_SingleCopyAttempt ==
    concat_calls # <<>> =>
        /\ Len(concat_calls) = 1
        /\ concat_calls[1].mode = "copy"
        /\ ~concat_calls[1].ok =>
              /\ result = (IF prog = "scores" THEN "critical" ELSE "merge_error")
              /\ output_video = <<>>

C5_Witness ==
    pc = "done" /\ concat_calls # <<>> /\ ~concat_calls[1].ok

\* C6 as claimed: when main returns, on any path, neither working directory
\* nor the manifest exists.
C6_CleanOnEveryExit ==
    (pc = "done" /\ prog = "scores") =>
        (~temp_exists /\ ~processed_exists /\ ~list_exists)

\* C6, amended: when main returns on a path that entered the try block,
\* neither working directory nor the manifest exists (the returns taken before
\* the try block run no cleanup).
C6_CleanAfterTry ==
    (pc = "done" /\ prog = "scores" /\ result # "no_input") =>
        (~temp_exists /\ ~processed_exists /\ ~list_exists)

C6_Witness ==
    /\ pc = "done" /\ prog = "scores"
    /\ result = "critical" /\ concat_calls # <<>>
    /\ "render_failed" \in Range(status)

\* C7: when clip_i exists as segment i is reached, the iteration invokes
\* neither the fetch nor the overlay-burn collaborator, leaves the processed
\* files as they are and appends clip_i to the clip list.
C7_ResumeSkipsTheSegment ==
    [][ (InLoop("scores") /\ i \in DOMAIN processed_files) =>
            /\ fetched' = fetched
            /\ burned' = burned
            /\ processed_files' = processed_files
            /\ downloaded_clips' = Append(downloaded_clips, i)
            /\ i' = i + 1 ]_vars

C7_Witness ==
    /\ prog = "scores" /\ pc = "loop"
    /\ status = <<"ok", "reused">>
    /\ downloaded_clips = <<0, 1>>
    /\ fetched = {0} /\ burned = {0}
    /\ DOMAIN processed_files = {0, 1}
    /\ processed_files[0] = run /\ processed_files[1] = 0

\* C8 as claimed: a run that follows another over the same work dir invokes
\* neither the fetch nor the overlay-burn collaborator for a segment the
\* earlier run produced a clip for.
C8_SecondRunSkipsDoneSegments ==
    (run > 1 /\ prog = "scores") =>
        /\ fetched \cap Range(prev_clips) = {}
        /\ burned \cap Range(prev_clips) = {}

FileIsValid(file) ==
    file.json_ok /\ \A k \in DOMAIN file.segments : TimeKeys \subseteq file.segments[k].keys

RECURSIVE ValidFilesOnly(_)
ValidFilesOnly(json_files) ==
    IF json_files = <<>> THEN <<>>
    ELSE LET file == Head(json_files)
         IN (IF FileIsValid(file)
             THEN [k \in DOMAIN file.segments |->
                     [mode |-> file.mode, video_filename |-> file.video,
                      start |-> file.segments[k].start,
                      end |-> file.segments[k].end]]
             ELSE <<>>) \o ValidFilesOnly(Tail(json_files))

\* C10 as claimed: a file with a segment element lacking start or end adds no
\* segment to all_segments, and every segment of the other files is in it.
C10_InvalidFileContributesNothing ==
    (prog = "highlights" /\ pc \in {"loop", "finally", "done"}
        /\ result # "no_input") =>
        all_segments = ValidFilesOnly(files)

\* The exit paths the specification calls fatal: no valid segments, no clip
\* produced, the join failed.
FatalResults == {"no_segments", "no_clips", "critical", "merge_error"}

\* C11: when the process has ended, its exit status is non-zero if the run
\* ended in a fatal condition and zero otherwise.
C11_FatalExitsNonZero ==
    pc = "done" =>
        /\ Len(exit_status) = 1
        /\ (result \in FatalResults) <=> (exit_status[1] # 0)

\* Segment k of all_segments ends no later than it starts.
Inverted(k) == all_segments[k + 1].end <= all_segments[k + 1].start

RECURSIVE WithTimes(_)
WithTimes(segments) ==
    IF segments = <<>> \/ ~(TimeKeys \subseteq Head(segments).keys) THEN <<>>
    ELSE << <<Head(segments).start, Head(segments).end>> >>
         \o WithTimes(Tail(segments))

RECURSIVE DescribedTimes(_)
DescribedTimes(json_files) ==
    IF json_files = <<>> THEN <<>>
    ELSE (IF Head(json_files).json_ok
          THEN WithTimes(Head(json_files).segments)
          ELSE <<>>) \o DescribedTimes(Tail(json_files))

AtMissingSource ==
    /\ InLoop("highlights")
    /\ all_segments[i + 1].mode = "local"
    /\ all_segments[i + 1].video_filename \notin DirMedia

\* C13: the iteration of a local-mode segment whose source file does not
\* exist invokes no slice, adds nothing to the clip list, and leaves the
\* loop at the next segment.
C13_MissingSourceSkipsTheSlice ==
    [][ AtMissingSource =>
          /\ sliced' = sliced
          /\ downloaded_clips' = downloaded_clips
          /\ i' = i + 1 /\ pc' = "loop"
          /\ status' = Append(status, "no_source") ]_vars

C13_Witness ==
    /\ prog = "highlights" /\ Len(status) = 2
    /\ status[1] = "no_source" /\ status[2] = "ok"
    /\ sliced = {1} /\ downloaded_clips = <<1>>

\* The segment loop has ended and produced no clip.
LoopEndedEmpty ==
    pc = "loop" /\ i = Len(all_segments) /\ downloaded_clips = <<>>

\* C14: when the segment loop ends with no clip, the step that follows
\* invokes no concatenation, writes no manifest and produces no output video.
C14_NoClipsNoConcat ==
    [][ LoopEndedEmpty =>
          /\ concat_calls' = concat_calls
          /\ list_exists' = list_exists /\ list_file' = list_file
          /\ output_video' = output_video
          /\ result' = "no_clips" ]_vars

C14_Witness ==
    /\ pc = "finally" /\ result = "no_clips"
    /\ status # <<>> /\ fetched # {}
    /\ concat_calls = <<>> /\ output_video = <<>>

\* The filter list of the latest burn, and the positions in it of the
\* primitives of the given roles.
BurnFilters == last_burn[1].filters

Positions(roles) == { k \in DOMAIN BurnFilters : BurnFilters[k].role \in roles }

Before(A, B) == \A a \in A, b \in B : a < b

ProgressionRoles == {"line", "marker"}
ShapeRoles == {"band", "accent", "box1", "box2"}
TextRoles == {"name1", "score1", "score2", "name2"}

\* C15 as claimed: with progression enabled the list is band, accent, the
\* two score boxes, then line and markers, then the texts; no progression
\* primitive precedes the band, the accent or a score box.
C15_ShapesBeforeProgression ==
    last_burn # <<>> /\ show_progression =>
        /\ Before(Positions(ShapeRoles), Positions(ProgressionRoles))
        /\ Before(Positions(ProgressionRoles), Positions(TextRoles))

\* C15: with progression enabled the list is the line, then the markers,
\* then band, accent, team 1's box, team 2's box, then the four texts: the
\* progression primitives come first and the scoreboard is drawn over them.
C15_ProgressionFirst ==
    last_burn # <<>> /\ show_progression =>
        /\ Positions({"line"}) = {1}
        /\ Before(Positions({"line"}), Positions({"marker"}))
        /\ Before(Positions(ProgressionRoles), Positions(ShapeRoles))
        /\ Before(Positions(ShapeRoles), Positions(TextRoles))
        /\ LET n == Cardinality(Positions(ProgressionRoles))
           IN [k \in 1..4 |-> BurnFilters[n + k].role]
                = <<"band", "accent", "box1", "box2">>
        /\ Len(BurnFilters) = Cardinality(Positions(ProgressionRoles)) + 8

C15_Witness ==
    /\ last_burn # <<>> /\ show_progression
    /\ last_burn[1].idx = 1
    /\ Cardinality(Positions({"marker"})) = 2

\* The segments up to idx that a team won.
PointsUpTo(idx) == { k \in 0..idx : all_segments[k + 1].winner # 0 }

\* The markers of the latest burn, and the one drawn for segment k: the
\* marker whose y is the integer part of topMargin + k * slotHeight, with
\* slotHeight = slot_num / slot_den.
BurnMarkers == Positions({"marker"})

BurnLayout ==
    Layout(last_burn[1].dims[1], last_burn[1].dims[2], Len(all_segments))

IsMarkerOf(p, k) ==
    LET L == BurnLayout
        y == BurnFilters[p].y
        exact == L.prog_margin_top * L.slot_den + k * L.slot_num
    IN y * L.slot_den <= exact /\ exact < (y + 1) * L.slot_den

\* slot_num / slot_den is min(availableHeight / totalSegments, 0.05 H).
SlotIsTheMinimum ==
    LET L == BurnLayout
        H == last_burn[1].dims[2]
        total == Len(all_segments)
    IN /\ L.slot_num * total <= L.prog_available_h * L.slot_den
       /\ L.slot_num * 20 <= H * L.slot_den
       /\ \/ L.slot_num * total = L.prog_available_h * L.slot_den
          \/ L.slot_num * 20 = H * L.slot_den

\* C16: with progression enabled, the filter list of segment i has exactly
\* one marker for each k in 0..i whose winner is not 0 and no other marker;
\* the marker of k is at y = topMargin + k * slotHeight; a team 1 marker
\* lies left of the line, a team 2 marker right of it. What happened to the
\* segments before i (clip produced, failed, reused) plays no part.
C16_OneMarkerPerPointSoFar ==
    last_burn # <<>> /\ show_progression =>
        LET idx == last_burn[1].idx
            line == BurnFilters[1]
        IN /\ SlotIsTheMinimum
           /\ Cardinality(BurnMarkers) = Cardinality(PointsUpTo(idx))
           /\ \A k \in PointsUpTo(idx) :
                 \E p \in BurnMarkers :
                    /\ IsMarkerOf(p, k)
                    /\ \A q \in BurnMarkers : IsMarkerOf(q, k) => q = p
                    /\ IF all_segments[k + 1].winner = 1
                       THEN BurnFilters[p].x + BurnFilters[p].w <= line.x
                       ELSE BurnFilters[p].x >= line.x + line.w
           /\ \A p \in BurnMarkers : \E k \in PointsUpTo(idx) : IsMarkerOf(p, k)

\* The second segment is burned after the first failed or was reused, and
\* both have their marker: team 1's on the left, team 2's on the right.
C16_Witness ==
    /\ last_burn # <<>> /\ show_progression
    /\ last_burn[1].idx = 1
    /\ status[1] \in {"acq_failed", "render_failed", "reused"}
    /\ all_segments[1].winner = 1 /\ all_segments[2].winner = 2
    /\ Cardinality(BurnMarkers) = 2

\* The filter list of the latest burn's segment at its resolution, as it is
\* built with and without -p.
BurnFiltersWith(show) ==
    BuildFilters(last_burn[1].idx, last_burn[1].dims[1], last_burn[1].dims[2],
                 all_segments, show)

IsScoreboard(f) == f.role \notin ProgressionRoles

\* C17: for the same resolution, segment, segment count, scores and winner
\* history, the list built without progression is the list built with it
\* minus the line and the markers: the eight scoreboard primitives are the
\* same, in the same order, and no line or marker remains. The list handed
\* to the burn is the one of the two that the flag selects.
C17_DisabledIsEnabledMinusProgression ==
    last_burn # <<>> =>
        LET on == BurnFiltersWith(TRUE)
            off == BurnFiltersWith(FALSE)
        IN /\ off = SelectSeq(on, IsScoreboard)
           /\ Len(off) = 8
           /\ \A k \in DOMAIN off : off[k].role \notin ProgressionRoles
           /\ on[1].role = "line"
           /\ BurnFilters = (IF show_progression THEN on ELSE off)

C17_Witness ==
    /\ last_burn # <<>> /\ ~show_progression
    /\ last_burn[1].idx = 1
    /\ all_segments[1].winner = 1 /\ all_segments[2].winner = 2
    /\ Len(BurnFilters) = 8
    /\ Len(BurnFiltersWith(TRUE)) = 11

\* C18: when the resolution probe of an acquired clip fails, prints nothing
\* or prints something that is not WxH, the segment goes on: the layout is
\* computed for 1920x1080 and the overlay burn is invoked for the segment,
\* whose outcome is then the burn's.
C18_ProbeFailureFallsBack ==
    last_burn # <<>> /\ last_burn[1].probe # "dims" =>
        LET idx == last_burn[1].idx
        IN /\ last_burn[1].dims = <<1920, 1080>>
           /\ BurnFilters = BuildFilters(idx, 1920, 1080, all_segments,
                                          show_progression)
           /\ \E p \in Positions({"band"}) :
                 BurnFilters[p].w = 1920 /\ BurnFilters[p].y + BurnFilters[p].h = 1080
           /\ idx \in burned
           /\ status[idx + 1] \in {"ok", "render_failed"}

C18_Witness ==
    /\ Len(status) = 2 /\ last_burn # <<>>
    /\ last_burn[1].idx = 1
    /\ last_burn[1].probe = "unparseable"
    /\ status[2] = "ok" /\ 1 \in burned
    /\ downloaded_clips = <<0, 1>>

\* C19: in the iteration of a segment that is not reused, if the overlay
\* burn succeeds the segment's raw file is gone and its clip is appended to
\* the clip list; if the burn fails nothing is appended and the raw file is
\* still in temp_dir when the loop is at the next segment.
C19_RawFileFollowsTheBurn ==
    [][ InLoop("scores") /\ ~AlreadyProcessed(i) =>
          LET outcome == status'[Len(status')]
          IN /\ outcome = "ok" =>
                   /\ i \in burned' /\ i \notin temp_files'
                   /\ downloaded_clips' = Append(downloaded_clips, i)
             /\ outcome = "render_failed" =>
                   /\ i \in burned' /\ i \in temp_files'
                   /\ downloaded_clips' = downloaded_clips
                   /\ pc' = "loop" /\ i' = i + 1 ]_vars

C19_Witness ==
    /\ prog = "scores" /\ pc = "loop"
    /\ status = <<"render_failed", "ok">>
    /\ burned = {0, 1}
    /\ temp_files = {0}
    /\ downloaded_clips = <<1>>

C21_MarkerSizeIsPositive ==
    last_burn # <<>> /\ show_progression =>
        /\ BurnLayout.prog_box_dim >= 1
        /\ \A p \in BurnMarkers :
              BurnFilters[p].w >= 1 /\ BurnFilters[p].h >= 1
====
